---- MODULE Spec2Model ----
(***************************************************************************)
(* Model of the Client controller of src/src/client.cc: the key dispatch   *)
(* loop (get_next_key, handle_available_input), the buffer-reload dialog   *)
(* (check_if_buffer_needs_reloading, on_buffer_reload_key,                 *)
(* close_buffer_reload_dialog, reload_buffer), change_buffer and           *)
(* redraw_ifn.  The collaborators whose code is not in src/ (InputHandler, *)
(* ClientManager, the hook engine, reload_file_buffer, the Window) are     *)
(* modelled by what spec.md says of them.                                  *)
(***************************************************************************)
EXTENDS Integers, Sequences, FiniteSets, TLC

(* ------------------------------ bounds --------------------------------- *)

\* number of Clients registered in the ClientManager
NClients == 2
\* number of keys the input source yields in one behaviour of SpecInput
MaxKeys == 3
\* number of keys typed in one behaviour of Spec and SpecWindow
MaxTyped == 2
\* largest filesystem timestamp; 0 is InvalidTime
MaxTime == 2
\* number of environment events (file touched, option set, buffer switched,
\* state shown on screen changed) in one behaviour
MaxEnv == 2

Clients == 1..NClients

(* ------------------------------ buffers -------------------------------- *)

\* Two file-backed buffers and one that is not (Buffer::Flags::File unset).
Buffers == {"a.txt", "b.txt", "*scratch*"}

FileBuffers == {"a.txt", "b.txt"}

\* buffer.flags() & Buffer::Flags::File
is_file(b) == b \in FileBuffers

\* buffer.display_name(): the name shown to the user
display_name(b) == b

InvalidTime == 0

(* -------------------------------- keys --------------------------------- *)

\* A Key is a pair of modifiers and a key value, as in `key->modifiers`.
Key(m, k) == [modifiers |-> m, key |-> k]

ctrl(k) == Key("Control", k)

plain(k) == Key("None", k)

Key_Escape == plain("Escape")

Key_FocusIn == plain("FocusIn")

Key_FocusOut == plain("FocusOut")

Key_Resize == Key("Resize", "80x24")

\* The keys an input source yields in the model: both confirm keys, both
\* decline keys, an ordinary key, the interrupt key and the synthetic events.
Keys == {plain("y"), ctrl("m"), plain("n"), Key_Escape, plain("x"),
         ctrl("c"), Key_FocusIn, Key_FocusOut, Key_Resize}

\* The keys of SpecInput: two ordinary keys, the interrupt key and the
\* synthetic events.
InputKeys == {plain("x"), plain("y"), ctrl("c"), Key_FocusIn, Key_FocusOut,
              Key_Resize}

\* The keys typed in Spec and SpecWindow: the confirm and decline keys, an
\* ordinary key and an event that is not forwarded to the key handler.
TypedKeys == {plain("y"), ctrl("m"), plain("n"), Key_Escape, plain("x"),
              Key_FocusIn}

\* key_to_str: the textual form of a key used in messages
key_to_str(k) ==
    IF k.modifiers = "Control" THEN
        (IF k.key = "m" THEN "<ret>" ELSE IF k.key = "c" THEN "<c-c>" ELSE "<c-?>")
    ELSE IF k.key = "Escape" THEN "<esc>"
    ELSE IF k.key = "FocusIn" THEN "<focus_in>"
    ELSE IF k.key = "FocusOut" THEN "<focus_out>"
    ELSE IF k.modifiers = "Resize" THEN "<resize>"
    ELSE k.key

(* ------------------------------- state --------------------------------- *)

VARIABLES
    source,           \* per Client: keys waiting in the input source (m_ui)
    m_pending_keys,   \* per Client: the pending-key queue
    keysLeft,         \* keys the input sources may still yield
    envLeft,          \* environment events still allowed
    call,             \* the handle_available_input call in progress or just ended
    registered,       \* per Client: still in the ClientManager
    m_buffer_reload_dialog_opened,  \* per Client: the modal flag
    next_key,         \* per Client: the one-shot handler installed by on_next_key
    m_pending_status_line,          \* per Client: status set by print_status
    m_info,           \* per Client: the tracked Info overlay
    fs_timestamp,     \* per Buffer: the timestamp recorded in the Buffer
    fs_now,           \* per Buffer: the timestamp the filesystem reports
    autoreload,       \* the autoreload option: "No", "Ask" or "Always"
    m_window,         \* per Client: the Window it owns, 0 when moved out
    ctx_window,       \* per Client: the Window its context refers to
    free_windows,     \* ClientManager: the free Windows, oldest first
    window_buffer,    \* per Window: the Buffer it shows, "" when not created
    window_dirty,     \* per Window: force_redraw was asked for
    m_status_line,    \* per Client: the status line drawn last
    m_mode_line,      \* per Client: the mode line drawn last
    m_menu,           \* per Client: the tracked Menu overlay
    window_pos,       \* per Window: its position
    session,          \* per Client: what generate_mode_line reads
    fx,               \* what the last operation did outside the Client
    ui,               \* per Client: backend calls issued by the last operation
    backend,          \* per Client: the overlays its backend shows
    history           \* the keys one watched Client's source yielded and
                      \* the keys its drains took, in order

vars == <<source, m_pending_keys, keysLeft, envLeft, call, registered,
          m_buffer_reload_dialog_opened, next_key, m_pending_status_line,
          m_info, fs_timestamp, fs_now, autoreload, m_window, ctx_window,
          free_windows, window_buffer, window_dirty, m_status_line,
          m_mode_line, m_menu, window_pos, session, fx, ui, backend,
          history>>

inputVars == <<source, m_pending_keys, keysLeft>>

dialogVars == <<m_buffer_reload_dialog_opened, next_key, m_info>>

fileVars == <<fs_timestamp, fs_now, autoreload>>

windowVars == <<m_window, ctx_window, free_windows, window_buffer>>

drawVars == <<m_status_line, m_mode_line, m_menu, window_pos, session>>

\* Window identities: a Client leaves at most one Window per Buffer behind.
Windows == 1..(NClients * Cardinality(Buffers))

NoWindow == 0

\* context().buffer()
buffer_of(c) == window_buffer[ctx_window[c]]

(* ---------------------------- display lines ---------------------------- *)

\* A DisplayLine is a sequence of atoms; an atom is a text (the pieces
\* format() joins) and a face.
Atom(text, face) == [text |-> text, face |-> face]

EmptyLine == <<>>

\* DisplayLine::atoms()
atoms(line) == line

NoInfo == [title |-> <<>>, content |-> <<>>, style |-> "Prompt"]

NoMenu == [items |-> <<>>, style |-> "Prompt", selected |-> -1]

\* one backend call: its name and its arguments
UiCall(name, args) == [name |-> name, args |-> args]

NoUi == [c \in Clients |-> <<>>]

\* The backend of a Client shows what the last info_show and menu_show gave
\* it, until the matching hide: the arguments of the call, <<>> when hidden.
NoOverlay == [info |-> <<>>, menu |-> <<>>]

\* the overlays a backend shows after one call
after_call(b, c) ==
    IF c.name = "info_show" THEN [b EXCEPT !.info = c.args]
    ELSE IF c.name = "info_hide" THEN [b EXCEPT !.info = <<>>]
    ELSE IF c.name = "menu_show" THEN [b EXCEPT !.menu = c.args]
    ELSE IF c.name = "menu_hide" THEN [b EXCEPT !.menu = <<>>]
    ELSE b

RECURSIVE after_calls(_, _)
\* the overlays a backend shows after a sequence of calls
after_calls(b, calls) ==
    IF calls = <<>> THEN b
    ELSE after_calls(after_call(b, Head(calls)), Tail(calls))

\* The keys the source of the watched Client yielded and the keys its
\* drains took; no Client is watched when c is 0.
History(c) == [c |-> c, yielded |-> <<>>, routed |-> <<>>]

\* the history after the step
Observed ==
    history' =
        IF history.c = 0 \/ fx'.c # history.c THEN history
        ELSE IF fx'.op = "key_arrives"
        THEN [history EXCEPT !.yielded = Append(@, fx'.key)]
        ELSE IF fx'.op = "dispatch"
        THEN [history EXCEPT !.routed = Append(@, fx'.key)]
        ELSE history

\* the backends receive the calls of the step
BackendSees ==
    backend' = [c \in Clients |-> after_calls(backend[c], ui'[c])]

\* what one operation did outside the Client
Fx(op, c, key) ==
    [op |-> op, c |-> c, key |-> key, reloads |-> 0, signals |-> 0,
     hooks |-> <<>>, params |-> <<>>, raised |-> "none", what |-> "",
     polled |-> FALSE, closes |-> {},
     handled |-> <<>>, intercepted |-> <<>>, removes |-> <<>>, threw |-> "none"]

NoKey == Key("None", "")

NoCall ==
    [active |-> FALSE, c |-> 0, mode |-> "", queue0 |-> <<>>, source0 |-> <<>>,
     taken |-> <<>>, engine |-> <<>>, intercepted |-> <<>>, hooks |-> <<>>,
     removes |-> <<>>, signals |-> 0, keysLeft0 |-> 0, result |-> ""]

\* The Info the dialog shows: title, content, style.
reload_prompt(b) ==
    [title |-> <<"reload '", display_name(b), "' ?">>,
     content |-> <<"'", display_name(b), "' was modified externally",
                   "press <ret> or y to reload, <esc> or n to keep">>,
     style |-> "Prompt"]

\* The state after the Clients are constructed, Client c with a Window on
\* Buffer shown[c], and with the given budgets. The Clients of `asked` have
\* the reload dialog open: the file of their Buffer was touched and
\* check_if_buffer_needs_reloading has run on them.
InitState(shown, keys, env, asked, watched) ==
    /\ history = History(watched)
    /\ source = [c \in Clients |-> <<>>]
    /\ m_pending_keys = [c \in Clients |-> <<>>]
    /\ keysLeft = keys
    /\ envLeft = env
    /\ call = NoCall
    /\ registered = [c \in Clients |-> TRUE]
    /\ m_buffer_reload_dialog_opened = [c \in Clients |-> c \in asked]
    /\ next_key = [c \in Clients |-> c \in asked]
    /\ m_pending_status_line = [c \in Clients |-> EmptyLine]
    /\ m_info = [c \in Clients |-> IF c \in asked THEN reload_prompt(shown[c])
                                   ELSE NoInfo]
    /\ fs_timestamp = [b \in Buffers |-> IF is_file(b) THEN 1 ELSE InvalidTime]
    /\ fs_now = [b \in Buffers |->
                    IF \E c \in asked : shown[c] = b THEN MaxTime
                    ELSE IF is_file(b) THEN 1 ELSE InvalidTime]
    /\ autoreload = "Ask"
    /\ m_window = [c \in Clients |-> c]
    /\ ctx_window = [c \in Clients |-> c]
    /\ free_windows = <<>>
    /\ window_buffer = [w \in Windows |-> IF w \in Clients THEN shown[w] ELSE ""]
    /\ window_dirty = [w \in Windows |-> FALSE]
    /\ m_status_line = [c \in Clients |-> EmptyLine]
    /\ m_mode_line = [c \in Clients |-> EmptyLine]
    /\ m_menu = [c \in Clients |-> NoMenu]
    /\ window_pos = [w \in Windows |-> 0]
    /\ session = [c \in Clients |-> {}]
    /\ fx = Fx("init", 0, NoKey)
    /\ ui = NoUi
    /\ backend = [c \in Clients |->
                     IF c \in asked
                     THEN [NoOverlay EXCEPT
                             !.info = <<reload_prompt(shown[c]).title,
                                        reload_prompt(shown[c]).content,
                                        reload_prompt(shown[c]).style>>]
                     ELSE NoOverlay]

\* The state after construction, no Client being watched.
InitWith(shown, keys, env, asked) == InitState(shown, keys, env, asked, 0)

\* The first Client shows a.txt, the others any Buffer.
Init ==
    \E shown \in {f \in [Clients -> Buffers] : f[1] = "a.txt"} :
        InitWith(shown, MaxTyped, MaxEnv, {})

\* Every Client shows a.txt.
InitWindow == InitWith([c \in Clients |-> "a.txt"], MaxTyped, MaxEnv, {})

\* Every Client shows a.txt; the first one may have the reload dialog open.
InitInput ==
    \E asked \in {{}, {1}} :
        InitWith([c \in Clients |-> "a.txt"], MaxKeys, 0, asked)

(* --------------------------- key dispatch loop ------------------------- *)

ClientNames == <<"client1", "client2", "client3", "client4">>

\* context().name()
client_name(c) == ClientNames[c]

\* The three event modes.
Modes == {"Normal", "Pending", "Urgent"}

\* get_next_key fetching from the input source in every mode
get_next_key_any_mode(mode, queue, src) ==
    IF queue # <<>> THEN "queue"
    ELSE IF src # <<>> THEN "source"
    ELSE "none"

\* get_next_key with the two tests in the wrong order
get_next_key_source_first(mode, queue, src) ==
    IF mode # "Pending" /\ src # <<>> THEN "source"
    ELSE IF queue # <<>> THEN "queue"
    ELSE "none"

\* Client::get_next_key: where the next key comes from. The queue is looked
\* at first, whatever the mode; the input source only when the mode is not
\* Pending and it reports a key available.
get_next_key(mode, queue, src) ==
    IF queue # <<>> THEN "queue"
    ELSE IF mode # "Pending" /\ src # <<>> THEN "source"
    ELSE "none"

\* Client::get_next_key: whether m_ui->is_key_available() is evaluated. The
\* queue is empty and `mode != EventMode::Pending and ...` does not stop at
\* its first operand.
polls_source(mode, queue) == queue = <<>> /\ mode # "Pending"

\* the Urgent branch putting the key at the front of the queue
urgent_queue_front(queue, key) ==
    IF key = ctrl("c") THEN queue ELSE <<key>> \o queue

\* the Urgent branch queueing every key
urgent_queue_all(queue, key) == Append(queue, key)

\* The Urgent branch of handle_available_input: the queue after the call.
urgent_queue(queue, key) ==
    IF key = ctrl("c") THEN queue ELSE Append(queue, key)

\* The Urgent branch: the number of signals the call broadcasts.
urgent_signals(key) == IF key = ctrl("c") THEN 1 ELSE 0

\* the chain without its test of the Resize modifier
route_no_resize(key) ==
    IF key = ctrl("c") THEN "interrupt"
    ELSE IF key = Key_FocusIn THEN "FocusIn"
    ELSE IF key = Key_FocusOut THEN "FocusOut"
    ELSE "handle_key"

\* The if/else chain of the drain loop: the route a key takes.
route(key) ==
    IF key = ctrl("c") THEN "interrupt"
    ELSE IF key = Key_FocusIn THEN "FocusIn"
    ELSE IF key = Key_FocusOut THEN "FocusOut"
    ELSE IF key.modifiers = "Resize" THEN "resize"
    ELSE "handle_key"

(* --------------------------- the reload dialog ------------------------- *)

\* get_fs_timestamp(name): InvalidTime when the file cannot be read
get_fs_timestamp(b) == fs_now[b]

\* on_buffer_reload_key taking every key that does not confirm as a decline
reload_key_kind_lenient(key) ==
    IF key = plain("y") \/ key = ctrl("m") THEN "confirm" ELSE "decline"

\* on_buffer_reload_key: which branch a key takes
reload_key_kind(key) ==
    IF key = plain("y") \/ key = ctrl("m") THEN "confirm"
    ELSE IF key = plain("n") \/ key = Key_Escape THEN "decline"
    ELSE "invalid"

\* the decline branch keeping the recorded timestamp
declined_timestamp_stale(b) == fs_timestamp[b]

\* The decline branch of on_buffer_reload_key: the timestamp it records,
\* read again from the filesystem.
declined_timestamp(b) == get_fs_timestamp(b)

\* the loop closing the dialog of every Client of the Buffer, without the
\* test of the flag
dialog_clients_unguarded(b) ==
    {d \in Clients : registered[d] /\ buffer_of(d) = b}

\* The loop over ClientManager::instance() at the end of
\* on_buffer_reload_key: the Clients whose dialog is closed.
dialog_clients(b) ==
    {d \in Clients : /\ registered[d]
                     /\ buffer_of(d) = b
                     /\ m_buffer_reload_dialog_opened[d]}

reloaded_status(b) ==
    <<Atom(<<"'", display_name(b), "' reloaded">>, "Information")>>

kept_status(b) ==
    <<Atom(<<"'", display_name(b), "' kept">>, "Information")>>

invalid_status(key) ==
    <<Atom(<<"'", key_to_str(key), "' is not a valid choice">>, "Error")>>

\* the error shown with the face of ordinary status text
error_status_plain(what) == <<Atom(<<what>>, "StatusLine")>>

error_status(what) == <<Atom(<<what>>, "Error")>>

\* reload_file_buffer: it fails when the file cannot be read, and may fail
\* otherwise; on success the Buffer records the file's timestamp.
reload_may_succeed(b) == fs_now[b] # InvalidTime

\* the exception an outcome stands for
thrown(eo) ==
    IF eo = "ok" THEN "none" ELSE IF eo = "error" THEN "runtime_error" ELSE eo

\* What handling a key did: the exception it ended with, and the new values.
Outcome(threw, what) ==
    [threw |-> threw, what |-> what, status |-> <<>>, setStatus |-> FALSE,
     closed |-> {}, reinstall |-> FALSE, consumed |-> FALSE,
     ts |-> fs_timestamp, reloads |-> 0, hooks |-> <<>>, params |-> <<>>,
     signals |-> 0,
     dirty |-> window_dirty, handled |-> <<>>, intercepted |-> <<>>]

\* Client::reload_buffer on Buffer b: `ok` is whether reload_file_buffer
\* succeeds.
reload_buffer(b, ok) ==
    IF ok
    THEN [Outcome("none", "") EXCEPT
            !.reloads = 1,
            !.ts = [fs_timestamp EXCEPT ![b] = fs_now[b]],
            !.status = reloaded_status(b), !.setStatus = TRUE]
    ELSE [Outcome("runtime_error", "reload failed") EXCEPT !.reloads = 1]

\* Client::on_buffer_reload_key, run by the one-shot handler of Client c.
on_buffer_reload_key(c, key, ok) ==
    LET b == buffer_of(c)
        kind == reload_key_kind(key)
    IN  IF kind = "confirm" THEN
            LET r == reload_buffer(b, ok)
            IN  IF r.threw = "none"
                THEN [r EXCEPT !.closed = dialog_clients(b)]
                ELSE r
        ELSE IF kind = "decline" THEN
            [Outcome("none", "") EXCEPT
                !.ts = [fs_timestamp EXCEPT ![b] = declined_timestamp(b)],
                !.status = kept_status(b), !.setStatus = TRUE,
                !.closed = dialog_clients(b)]
        ELSE
            [Outcome("none", "") EXCEPT
                !.status = invalid_status(key), !.setStatus = TRUE,
                !.reinstall = TRUE]

\* InputHandler::handle_key for Client c. With a one-shot handler installed
\* the handler is removed and run with the key; otherwise the editing engine
\* handles the key and ends as `eo` says.
handle_key(c, key, eo) ==
    IF next_key[c]
    THEN [on_buffer_reload_key(c, key, eo = "ok") EXCEPT
            !.consumed = TRUE, !.intercepted = <<key>>]
    ELSE IF eo = "ok" THEN [Outcome("none", "") EXCEPT !.handled = <<key>>]
    ELSE IF eo = "error"
    THEN [Outcome("runtime_error", "engine error") EXCEPT !.handled = <<key>>]
    ELSE [Outcome(thrown(eo), "") EXCEPT !.handled = <<key>>]

\* Client::force_redraw: nothing when the Client has no Window.
force_redraw(c) ==
    IF m_window[c] # NoWindow
    THEN [window_dirty EXCEPT ![m_window[c]] = TRUE]
    ELSE window_dirty

\* One iteration of the drain loop on `key`.
dispatch_key(c, key, eo) ==
    LET r == route(key)
    IN  IF r = "interrupt" THEN [Outcome("none", "") EXCEPT !.signals = 1]
        ELSE IF r \in {"FocusIn", "FocusOut"}
        THEN [Outcome(thrown(eo), "") EXCEPT
                !.hooks = <<r>>, !.params = <<client_name(c)>>]
        ELSE IF r = "resize"
        THEN [Outcome("none", "") EXCEPT !.dirty = force_redraw(c)]
        ELSE handle_key(c, key, eo)

\* the outer handler catching only a graceful removal
Removals_graceful == {"removed_graceful"}

\* The outcomes handling a key may end with: it returns, it throws a
\* runtime_error, or it throws client_removed with the graceful flag.
Outcomes == {"ok", "error", "removed_graceful", "removed_abrupt"}

Removals == {"removed_graceful", "removed_abrupt"}

\* The choices that exist for a key: hooks contain runtime errors, the
\* interrupt and resize routes call nothing that throws, and the one-shot
\* handler throws only what reload_buffer throws.
possible(c, key, eo) ==
    LET r == route(key)
    IN  IF r \in {"interrupt", "resize"} THEN eo = "ok"
        ELSE IF r \in {"FocusIn", "FocusOut"} THEN eo # "error"
        ELSE IF next_key[c]
        THEN /\ eo \in {"ok", "error"}
             /\ reload_key_kind(key) # "confirm" => eo = "ok"
             /\ (reload_key_kind(key) = "confirm" /\ eo = "ok")
                    => reload_may_succeed(buffer_of(c))
        ELSE TRUE

(* ------------------------------- actions ------------------------------- *)

\* The input source of Client c receives a key.
KeyArrives(c, key) ==
    /\ registered[c]
    /\ keysLeft > 0
    /\ keysLeft' = keysLeft - 1
    /\ source' = [source EXCEPT ![c] = Append(@, key)]
    /\ call' = IF call.active THEN call ELSE NoCall
    /\ fx' = Fx("key_arrives", c, key)
    /\ ui' = NoUi
    /\ UNCHANGED <<m_pending_keys, envLeft, registered, dialogVars,
                   m_pending_status_line, fileVars, windowVars, window_dirty,
                   drawVars>>
    /\ BackendSees
    /\ Observed

\* handle_available_input(EventMode::Urgent) on Client c: the input callback
\* runs it when the source has input, also while a drain is in progress
\* (the editing engine waits for a child process and handles urgent events).
Urgent(c) ==
    /\ registered[c]
    /\ source[c] # <<>>
    /\ LET key == Head(source[c])
       IN  /\ source' = [source EXCEPT ![c] = Tail(@)]
           /\ m_pending_keys' =
                 [m_pending_keys EXCEPT ![c] = urgent_queue(@, key)]
           /\ fx' = [Fx("urgent", c, key) EXCEPT
                        !.signals = urgent_signals(key)]
    /\ call' = IF call.active THEN call ELSE NoCall
    /\ ui' = NoUi
    /\ UNCHANGED <<keysLeft, envLeft, registered, dialogVars,
                   m_pending_status_line, fileVars, windowVars, window_dirty,
                   drawVars>>
    /\ BackendSees
    /\ Observed

\* The call record of a fresh handle_available_input(mode) on Client c.
NewCall(c, mode) ==
    [NoCall EXCEPT !.active = TRUE, !.c = c, !.mode = mode,
                   !.queue0 = m_pending_keys[c], !.source0 = source[c],
                   !.keysLeft0 = keysLeft]

\* The state after one iteration of the drain loop handled `key` with
\* outcome o; rh is how the RuntimeError hook ends when the inner handler
\* runs it.
Commit(c, cl, key, from, o, rh) ==
    LET caught == o.threw = "runtime_error"
        final == IF caught THEN thrown(rh) ELSE o.threw
        hooks == o.hooks \o (IF caught THEN <<"RuntimeError">> ELSE <<>>)
        params == o.params \o (IF caught THEN <<o.what>> ELSE <<>>)
        removes == IF final \in Removals
                   THEN <<[c |-> c, graceful |-> final = "removed_graceful"]>>
                   ELSE <<>>
    IN  /\ m_pending_status_line' =
              [m_pending_status_line EXCEPT ![c] =
                  IF caught THEN error_status(o.what)
                  ELSE IF o.setStatus THEN o.status ELSE @]
        /\ m_buffer_reload_dialog_opened' =
              [d \in Clients |-> IF d \in o.closed THEN FALSE
                                 ELSE m_buffer_reload_dialog_opened[d]]
        /\ next_key' =
              [d \in Clients |-> IF d \in o.closed THEN FALSE
                                 ELSE IF d = c /\ o.consumed THEN o.reinstall
                                 ELSE next_key[d]]
        /\ ui' = [d \in Clients |-> IF d \in o.closed
                                    THEN <<UiCall("info_hide", <<>>)>>
                                    ELSE <<>>]
        /\ fs_timestamp' = o.ts
        /\ window_dirty' = o.dirty
        /\ registered' = IF final \in Removals
                         THEN [registered EXCEPT ![c] = FALSE]
                         ELSE registered
        /\ call' = [cl EXCEPT
                      !.taken = Append(@, [key |-> key, from |-> from]),
                      !.engine = @ \o o.handled \o o.intercepted,
                      !.intercepted = @ \o o.intercepted,
                      !.hooks = @ \o hooks,
                      !.removes = @ \o removes,
                      !.signals = @ + o.signals,
                      !.active = (final = "none" /\ ~caught),
                      !.result = IF final \in Removals THEN "removed"
                                 ELSE IF caught THEN "error" ELSE ""]
        /\ fx' = [Fx("dispatch", c, key) EXCEPT
                      !.reloads = o.reloads, !.hooks = hooks,
                      !.params = params, !.raised = o.threw, !.what = o.what,
                      !.polled = polls_source(cl.mode, m_pending_keys[c]),
                      !.closes = o.closed,
                      !.signals = o.signals,
                      !.handled = o.handled, !.intercepted = o.intercepted,
                      !.removes = removes,
                      !.threw = IF caught /\ final = "none"
                                THEN "runtime_error" ELSE final]

\* One turn of `while (Optional<Key> key = get_next_key(mode))` in the call
\* cl of Client c: the loop ends when there is no key; otherwise the key is
\* taken and routed.
Step(c, cl) ==
    LET from == get_next_key(cl.mode, m_pending_keys[c], source[c])
    IN  IF from = "none"
        THEN /\ call' = [cl EXCEPT !.active = FALSE, !.result = "done"]
             /\ fx' = [Fx("dispatch_end", c, NoKey) EXCEPT
                          !.polled = polls_source(cl.mode, m_pending_keys[c])]
             /\ ui' = NoUi
             /\ UNCHANGED <<inputVars, envLeft, registered, dialogVars,
                            m_pending_status_line, fileVars, windowVars,
                            window_dirty,
                   drawVars>>
        ELSE LET key == IF from = "queue" THEN Head(m_pending_keys[c])
                        ELSE Head(source[c])
             IN  /\ m_pending_keys' =
                       IF from = "queue"
                       THEN [m_pending_keys EXCEPT ![c] = Tail(@)]
                       ELSE m_pending_keys
                 /\ source' = IF from = "source"
                              THEN [source EXCEPT ![c] = Tail(@)]
                              ELSE source
                 /\ \E eo \in Outcomes, rh \in {"ok"} \cup Removals :
                       /\ possible(c, key, eo)
                       /\ rh # "ok" => eo = "error"
                       /\ Commit(c, cl, key, from, dispatch_key(c, key, eo), rh)
                 /\ UNCHANGED <<keysLeft, envLeft, m_info, fs_now, autoreload,
                                windowVars,
                   drawVars>>

\* handle_available_input(mode) is called on Client c, in Normal or Pending
\* mode, and runs the first turn of its loop.
Begin(c, mode) ==
    /\ ~call.active
    /\ registered[c]
    /\ m_pending_keys[c] # <<>> \/ source[c] # <<>>
    /\ Step(c, NewCall(c, mode))
    /\ BackendSees
    /\ Observed

\* Client::handle_available_input(mode) on Client c.
handle_available_input(c, mode) ==
    IF mode = "Urgent" THEN Urgent(c) ELSE Begin(c, mode)

\* The call in progress runs the next turn of its loop.
Continue(c) ==
    /\ call.active
    /\ call.c = c
    /\ Step(c, call)
    /\ BackendSees
    /\ Observed

(* ------------------- check_if_buffer_needs_reloading ------------------- *)

\* the check without its first early return
check_decision_reentrant(opened, file, policy, ts, recorded) ==
    IF ~file \/ policy = "No" THEN "none"
    ELSE IF ts = InvalidTime \/ ts = recorded THEN "none"
    ELSE IF policy = "Ask" THEN "ask"
    ELSE "reload"

\* the check without the comparison of the two timestamps
check_decision_no_compare(opened, file, policy, ts, recorded) ==
    IF opened THEN "none"
    ELSE IF ~file \/ policy = "No" THEN "none"
    ELSE IF ts = InvalidTime THEN "none"
    ELSE IF policy = "Ask" THEN "ask"
    ELSE "reload"

\* The early returns and the final if/else of
\* check_if_buffer_needs_reloading: "none" (return), "ask" (open the
\* dialog) or "reload" (call reload_buffer).
check_decision(opened, file, policy, ts, recorded) ==
    IF opened THEN "none"
    ELSE IF ~file \/ policy = "No" THEN "none"
    ELSE IF ts = InvalidTime \/ ts = recorded THEN "none"
    ELSE IF policy = "Ask" THEN "ask"
    ELSE "reload"

\* InfoStyle: the inline styles
is_inline(style) == style \in {"Inline", "InlineAbove", "InlineBelow"}

\* Client::info_show: the backend call it issues
info_show_call(info) == UiCall("info_show", <<info.title, info.content, info.style>>)

\* Client::check_if_buffer_needs_reloading on Client c; `ok` is whether
\* reload_file_buffer succeeds when the check reloads.
Check(c, ok) ==
    /\ ~call.active
    /\ registered[c]
    /\ LET b == buffer_of(c)
           d == check_decision(m_buffer_reload_dialog_opened[c], is_file(b),
                               autoreload, get_fs_timestamp(b), fs_timestamp[b])
           r == reload_buffer(b, ok)
       IN  /\ d # "reload" => ok
           /\ (d = "reload" /\ ok) => reload_may_succeed(b)
           /\ m_info' = IF d = "ask" THEN [m_info EXCEPT ![c] = reload_prompt(b)]
                        ELSE m_info
           /\ ui' = IF d = "ask"
                    THEN [NoUi EXCEPT ![c] = <<info_show_call(reload_prompt(b))>>]
                    ELSE NoUi
           /\ m_buffer_reload_dialog_opened' =
                 IF d = "ask"
                 THEN [m_buffer_reload_dialog_opened EXCEPT ![c] = TRUE]
                 ELSE m_buffer_reload_dialog_opened
           /\ next_key' = IF d = "ask" THEN [next_key EXCEPT ![c] = TRUE]
                          ELSE next_key
           /\ fs_timestamp' = IF d = "reload" THEN r.ts ELSE fs_timestamp
           /\ m_pending_status_line' =
                 IF d = "reload" /\ r.setStatus
                 THEN [m_pending_status_line EXCEPT ![c] = r.status]
                 ELSE m_pending_status_line
           /\ fx' = [Fx("check", c, NoKey) EXCEPT
                        !.reloads = IF d = "reload" THEN r.reloads ELSE 0,
                        !.threw = IF d = "reload" THEN r.threw ELSE "none"]
    /\ call' = NoCall
    /\ UNCHANGED <<inputVars, envLeft, registered, fs_now, autoreload,
                   windowVars, window_dirty,
                   drawVars>>
    /\ BackendSees
    /\ Observed

(* ----------------------------- environment ----------------------------- *)

\* The file of Buffer b is modified or removed outside the editor.
FsTouch(b, t) ==
    /\ envLeft > 0
    /\ ~call.active
    /\ is_file(b)
    /\ t \in 0..MaxTime
    /\ t # fs_now[b]
    /\ fs_now' = [fs_now EXCEPT ![b] = t]
    /\ envLeft' = envLeft - 1
    /\ call' = NoCall
    /\ fx' = Fx("fs_touch", 0, NoKey)
    /\ ui' = NoUi
    /\ UNCHANGED <<inputVars, registered, dialogVars,
                   m_pending_status_line, fs_timestamp, autoreload,
                   windowVars, window_dirty,
                   drawVars>>
    /\ BackendSees
    /\ Observed

\* The autoreload option is set.
SetAutoreload(v) ==
    /\ envLeft > 0
    /\ ~call.active
    /\ v \in {"No", "Ask", "Always"}
    /\ v # autoreload
    /\ autoreload' = v
    /\ envLeft' = envLeft - 1
    /\ call' = NoCall
    /\ fx' = Fx("set_option", 0, NoKey)
    /\ ui' = NoUi
    /\ UNCHANGED <<inputVars, registered, dialogVars,
                   m_pending_status_line, fs_timestamp, fs_now,
                   windowVars, window_dirty,
                   drawVars>>
    /\ BackendSees
    /\ Observed

(* ---------------------------- change_buffer ---------------------------- *)

\* ClientManager::get_free_window looks for the most recently freed Window
\* of the Buffer: its index in the free list, 0 when there is none.
free_index(free, b) ==
    LET hits == {i \in 1..Len(free) : window_buffer[free[i]] = b}
    IN  IF hits = {} THEN 0 ELSE CHOOSE i \in hits : \A j \in hits : j <= i

remove_at(seq, i) == SubSeq(seq, 1, i - 1) \o SubSeq(seq, i + 1, Len(seq))

\* the Window a `new Window` yields: one that does not exist yet
fresh_window == CHOOSE w \in Windows :
                    /\ window_buffer[w] = ""
                    /\ \A v \in Windows : window_buffer[v] = "" => w <= v

\* Client::close_buffer_reload_dialog: the backend call it issues
close_calls == <<UiCall("info_hide", <<>>)>>

\* What change_buffer may end with: it returns, get_free_window throws, or
\* the WinDisplay hook throws.
ChangeOutcomes == {"ok", "window_fails", "hook_fails"}

\* The Window members after change_buffer: m_window is moved into the free
\* list first, and only set again when get_free_window has returned.
changed_window(c, got, out) ==
    IF out = "window_fails" THEN NoWindow ELSE got

\* The context's Window after change_buffer: set_window runs after
\* get_free_window has returned.
changed_context(c, got, out) ==
    IF out = "window_fails" THEN ctx_window[c] ELSE got

\* Client::change_buffer(buffer) on Client c.
ChangeBuffer(c, b, out) ==
    /\ ~call.active
    /\ registered[c]
    /\ m_window[c] # NoWindow
    /\ b \in Buffers
    /\ out \in ChangeOutcomes
    /\ envLeft > 0
    /\ envLeft' = envLeft - 1
    /\ LET opened == m_buffer_reload_dialog_opened[c]
           free1 == Append(free_windows, m_window[c])
           i == free_index(free1, b)
           got == IF i # 0 THEN free1[i] ELSE fresh_window
       IN  /\ m_buffer_reload_dialog_opened' =
                 [m_buffer_reload_dialog_opened EXCEPT ![c] = FALSE]
           /\ next_key' = IF opened THEN [next_key EXCEPT ![c] = FALSE]
                          ELSE next_key
           /\ ui' = IF opened THEN [NoUi EXCEPT ![c] = close_calls] ELSE NoUi
           /\ m_window' = [m_window EXCEPT ![c] = changed_window(c, got, out)]
           /\ ctx_window' = [ctx_window EXCEPT ![c] = changed_context(c, got, out)]
           /\ free_windows' = IF out = "window_fails" \/ i = 0 THEN free1
                              ELSE remove_at(free1, i)
           /\ window_buffer' = IF out = "window_fails" THEN window_buffer
                               ELSE [window_buffer EXCEPT ![got] = b]
           /\ window_dirty' = IF out = "window_fails" THEN window_dirty
                              ELSE [window_dirty EXCEPT ![got] = TRUE]
           /\ fx' = [Fx("change_buffer", c, NoKey) EXCEPT
                        !.closes = IF opened THEN {c} ELSE {},
                        !.hooks = IF out = "window_fails" THEN <<>>
                                  ELSE <<"WinDisplay">>,
                        !.threw = IF out = "ok" THEN "none" ELSE out]
    /\ call' = NoCall
    /\ UNCHANGED <<inputVars, registered, m_pending_status_line,
                   m_info, fileVars,
                   drawVars>>
    /\ BackendSees
    /\ Observed

(* ------------------------------- redraw -------------------------------- *)

\* What generate_mode_line reads of the Client's context, each a condition
\* that holds or not.
Conditions == {"fmt_error", "modified", "recording", "new_file", "no_hooks",
               "fifo"}

\* the atoms the input handler's mode supplies: the one-shot handler shows
\* that it waits for a key
engine_mode_line(c) ==
    IF next_key[c] THEN <<Atom(<<"enter key">>, "StatusLine")>>
    ELSE <<Atom(<<"normal">>, "StatusLine")>>

\* an indicator atom, present when its condition holds
indicator(c, cond, text) ==
    IF cond \in session[c] THEN <<Atom(<<text>>, "Information")>> ELSE <<>>

\* Client::generate_mode_line
generate_mode_line(c) ==
    (IF "fmt_error" \in session[c]
     THEN <<Atom(<<"modelinefmt error, see *debug* buffer">>, "Error")>>
     ELSE <<Atom(<<display_name(buffer_of(c))>>, "Default")>>)
    \o indicator(c, "modified", "[+]")
    \o indicator(c, "recording", "[recording (@)]")
    \o indicator(c, "new_file", "[new file]")
    \o indicator(c, "no_hooks", "[no-hooks]")
    \o indicator(c, "fifo", "[fifo]")
    \o <<Atom(<<" ">>, "Default")>>
    \o engine_mode_line(c)
    \o <<Atom(<<" - ", client_name(c), "@[", "session", "]">>, "Default")>>

\* the condition without the comparison of the mode lines
status_needs_draw_no_mode(needs_redraw, drawn, pending, drawn_mode, mode_line) ==
    \/ needs_redraw
    \/ atoms(drawn) # atoms(pending)

\* the condition with the status comparison the wrong way round
status_needs_draw_inverted(needs_redraw, drawn, pending, drawn_mode, mode_line) ==
    \/ needs_redraw
    \/ atoms(drawn) = atoms(pending)
    \/ atoms(mode_line) # atoms(drawn_mode)

\* The condition of redraw_ifn under which the status strip is drawn.
status_needs_draw(needs_redraw, drawn, pending, drawn_mode, mode_line) ==
    \/ needs_redraw
    \/ atoms(drawn) # atoms(pending)
    \/ atoms(mode_line) # atoms(drawn_mode)

\* The backend calls redraw_ifn issues for the overlays when the Window
\* has moved.
reanchor_calls(c) ==
    (IF m_menu[c].items # <<>> /\ m_menu[c].style = "Inline"
     THEN <<UiCall("menu_show", <<m_menu[c].items, m_menu[c].style>>),
            UiCall("menu_select", <<m_menu[c].selected>>)>>
     ELSE <<>>)
    \o (IF m_info[c].content # <<>> /\ is_inline(m_info[c].style)
        THEN <<info_show_call(m_info[c])>>
        ELSE <<>>)

\* The backend calls of one redraw_ifn, in order.
redraw_calls(c, needs_redraw, moved, draw_status, mode_line) ==
    (IF needs_redraw
     THEN <<UiCall("draw", <<>>)>> \o (IF moved THEN reanchor_calls(c) ELSE <<>>)
     ELSE <<>>)
    \o (IF draw_status
        THEN <<UiCall("draw_status", <<m_pending_status_line[c], mode_line>>)>>
        ELSE <<>>)
    \o <<UiCall("refresh", <<>>)>>

\* Client::redraw_ifn on Client c; `moved` is whether drawing changes the
\* Window's position.
RedrawIfn(c, moved) ==
    /\ ~call.active
    /\ registered[c]
    /\ LET w == ctx_window[c]
           needs_redraw == window_dirty[w]
           mode_line == generate_mode_line(c)
           draw_status == status_needs_draw(needs_redraw, m_status_line[c],
                                            m_pending_status_line[c],
                                            m_mode_line[c], mode_line)
       IN  /\ moved => needs_redraw
           /\ window_dirty' = [window_dirty EXCEPT ![w] = FALSE]
           /\ window_pos' = IF moved
                            THEN [window_pos EXCEPT ![w] = 1 - @]
                            ELSE window_pos
           /\ m_mode_line' = IF draw_status
                             THEN [m_mode_line EXCEPT ![c] = mode_line]
                             ELSE m_mode_line
           /\ m_status_line' =
                 IF draw_status
                 THEN [m_status_line EXCEPT ![c] = m_pending_status_line[c]]
                 ELSE m_status_line
           /\ ui' = [NoUi EXCEPT ![c] =
                        redraw_calls(c, needs_redraw, moved, draw_status,
                                     mode_line)]
           /\ fx' = [Fx("redraw_ifn", c, NoKey) EXCEPT
                        !.threw = IF needs_redraw THEN "dirty" ELSE "clean"]
    /\ call' = NoCall
    /\ UNCHANGED <<inputVars, envLeft, registered, dialogVars,
                   m_pending_status_line, fileVars, windowVars, m_menu,
                   session>>
    /\ BackendSees
    /\ Observed

\* the status lines print_status is called with in the model
StatusLines == {EmptyLine, <<Atom(<<"saved">>, "StatusLine")>>,
                <<Atom(<<"saved">>, "Information")>>}

\* Client::print_status
PrintStatus(c, line) ==
    /\ ~call.active
    /\ registered[c]
    /\ m_pending_status_line' = [m_pending_status_line EXCEPT ![c] = line]
    /\ fx' = Fx("print_status", c, NoKey)
    /\ ui' = NoUi
    /\ call' = NoCall
    /\ UNCHANGED <<inputVars, envLeft, registered, dialogVars, fileVars,
                   windowVars, window_dirty, drawVars>>
    /\ BackendSees
    /\ Observed

\* The Window of Client c needs a redraw: the text or the selections changed.
MarkDirty(c) ==
    /\ envLeft > 0
    /\ ~call.active
    /\ registered[c]
    /\ ~window_dirty[ctx_window[c]]
    /\ window_dirty' = [window_dirty EXCEPT ![ctx_window[c]] = TRUE]
    /\ envLeft' = envLeft - 1
    /\ fx' = Fx("mark_dirty", c, NoKey)
    /\ ui' = NoUi
    /\ call' = NoCall
    /\ UNCHANGED <<inputVars, registered, dialogVars, m_pending_status_line,
                   fileVars, windowVars, drawVars>>
    /\ BackendSees
    /\ Observed

\* One of the conditions the mode line shows starts or stops to hold.
SessionChange(c, cond) ==
    /\ envLeft > 0
    /\ ~call.active
    /\ registered[c]
    /\ cond \in Conditions
    /\ session' = [session EXCEPT ![c] =
                      IF cond \in @ THEN @ \ {cond} ELSE @ \cup {cond}]
    /\ envLeft' = envLeft - 1
    /\ fx' = Fx("session_change", c, NoKey)
    /\ ui' = NoUi
    /\ call' = NoCall
    /\ UNCHANGED <<inputVars, registered, dialogVars, m_pending_status_line,
                   fileVars, windowVars, window_dirty, m_status_line,
                   m_mode_line, m_menu, window_pos>>
    /\ BackendSees
    /\ Observed

(* ------------------------------ overlays ------------------------------- *)

\* the Infos info_show is called with in the model: two inline ones, one
\* inline with no content, one of the Prompt style
Infos ==
    {[title |-> <<"doc">>, content |-> <<"text">>, style |-> "Inline"],
     [title |-> <<"sig">>, content |-> <<"args">>, style |-> "InlineBelow"],
     [title |-> <<"doc">>, content |-> <<>>, style |-> "Inline"],
     [title |-> <<"note">>, content |-> <<"text">>, style |-> "Prompt"]}

\* the Menus menu_show is called with in the model
Menus == {[items |-> <<"one", "two">>, style |-> "Inline"],
          [items |-> <<"one">>, style |-> "Prompt"]}

\* the steps of the overlay operations: what they leave alone
OverlayFrame(c, op) ==
    /\ ~call.active
    /\ registered[c]
    /\ fx' = Fx(op, c, NoKey)
    /\ call' = NoCall
    /\ UNCHANGED <<inputVars, envLeft, registered,
                   m_buffer_reload_dialog_opened, next_key,
                   m_pending_status_line, fileVars, windowVars, window_dirty,
                   m_status_line, m_mode_line, window_pos, session>>

\* Client::menu_show
MenuShow(c, choices, style) ==
    /\ OverlayFrame(c, "menu_show")
    /\ m_menu' = [m_menu EXCEPT ![c] =
                     [items |-> choices, style |-> style, selected |-> -1]]
    /\ ui' = [NoUi EXCEPT ![c] = <<UiCall("menu_show", <<choices, style>>)>>]
    /\ m_info' = m_info
    /\ BackendSees
    /\ Observed

\* Client::menu_select, called for an entry of the Menu that is shown
MenuSelect(c, selected) ==
    /\ OverlayFrame(c, "menu_select")
    /\ selected < Len(m_menu[c].items)
    /\ m_menu' = [m_menu EXCEPT ![c].selected = selected]
    /\ ui' = [NoUi EXCEPT ![c] = <<UiCall("menu_select", <<selected>>)>>]
    /\ m_info' = m_info
    /\ BackendSees
    /\ Observed

\* Client::menu_hide
MenuHide(c) ==
    /\ OverlayFrame(c, "menu_hide")
    /\ m_menu' = [m_menu EXCEPT ![c] = NoMenu]
    /\ ui' = [NoUi EXCEPT ![c] = <<UiCall("menu_hide", <<>>)>>]
    /\ m_info' = m_info
    /\ BackendSees
    /\ Observed

\* Client::info_show
InfoShow(c, info) ==
    /\ OverlayFrame(c, "info_show")
    /\ m_info' = [m_info EXCEPT ![c] = info]
    /\ ui' = [NoUi EXCEPT ![c] = <<info_show_call(info)>>]
    /\ m_menu' = m_menu
    /\ BackendSees
    /\ Observed

\* Client::info_hide
InfoHide(c) ==
    /\ OverlayFrame(c, "info_hide")
    /\ m_info' = [m_info EXCEPT ![c] = NoInfo]
    /\ ui' = [NoUi EXCEPT ![c] = <<UiCall("info_hide", <<>>)>>]
    /\ m_menu' = m_menu
    /\ BackendSees
    /\ Observed

(* ---------------------------- specification ---------------------------- *)

\* no key is waiting anywhere and no call is in progress
Quiet ==
    /\ ~call.active
    /\ \A c \in Clients : source[c] = <<>> /\ m_pending_keys[c] = <<>>

\* A key is typed at Client c while nothing else is waiting.
KeyTyped(c, key) == Quiet /\ KeyArrives(c, key)

\* The reload dialog and the files, with keys typed one at a time and
\* handled by Normal calls.
Next ==
    \/ \E c \in Clients, key \in TypedKeys : KeyTyped(c, key)
    \/ \E c \in Clients : handle_available_input(c, "Normal")
    \/ \E c \in Clients : Continue(c)
    \/ \E c \in Clients, ok \in BOOLEAN : Check(c, ok)
    \/ \E b \in Buffers, t \in 0..MaxTime : FsTouch(b, t)
    \/ \E v \in {"No", "Ask", "Always"} : SetAutoreload(v)

Spec == Init /\ [][Next]_vars

\* The same with Clients switching Buffers.
NextWindow ==
    \/ \E c \in Clients, key \in TypedKeys : KeyTyped(c, key)
    \/ \E c \in Clients : handle_available_input(c, "Normal")
    \/ \E c \in Clients : Continue(c)
    \/ \E c \in Clients, ok \in BOOLEAN : Check(c, ok)
    \/ \E b \in Buffers, t \in 0..MaxTime : FsTouch(b, t)
    \/ \E c \in Clients, b \in Buffers, out \in ChangeOutcomes :
          ChangeBuffer(c, b, out)

SpecWindow == InitWindow /\ [][NextWindow]_vars

\* The key dispatch loop of one Client (the loop touches no other Client):
\* keys arrive at any time, Urgent calls move them to the queue, Normal and
\* Pending calls drain.
NextInput ==
    \/ \E key \in InputKeys : KeyArrives(1, key)
    \/ \E mode \in Modes : handle_available_input(1, mode)
    \/ Continue(1)

SpecInput == InitInput /\ [][NextInput]_vars

\* Redrawing on one Client (redraw_ifn touches no other): the status is printed, the Window gets dirty, the conditions
\* of the mode line change, and redraw_ifn runs.
NextDraw ==
    \/ \E line \in StatusLines : PrintStatus(1, line)
    \/ MarkDirty(1)
    \/ \E cond \in Conditions : SessionChange(1, cond)
    \/ \E moved \in BOOLEAN : RedrawIfn(1, moved)

SpecDraw == InitWindow /\ [][NextDraw]_vars

\* The keys typed in SpecOverlay: a decline key and a key the dialog
\* refuses.
OverlayKeys == {plain("n"), plain("x")}

\* Every Client shows a.txt; the first one may have the reload dialog open.
InitOverlay ==
    \E asked \in {{}, {1}} :
        InitWith([c \in Clients |-> "a.txt"], MaxTyped, MaxEnv, asked)

\* The overlays of one Client (its overlay operations touch no other): they
\* are shown, selected and hidden, the Window gets dirty and is redrawn, and
\* keys are typed and handled, which closes an open reload dialog.
NextOverlay ==
    \/ \E info \in Infos : InfoShow(1, info)
    \/ InfoHide(1)
    \/ \E m \in Menus : MenuShow(1, m.items, m.style)
    \/ \E selected \in 0..1 : MenuSelect(1, selected)
    \/ MenuHide(1)
    \/ MarkDirty(1)
    \/ \E moved \in BOOLEAN : RedrawIfn(1, moved)
    \/ \E key \in OverlayKeys : KeyTyped(1, key)
    \/ handle_available_input(1, "Normal")
    \/ Continue(1)

SpecOverlay == InitOverlay /\ [][NextOverlay]_vars

\* The keys of SpecOrder: two ordinary keys and the interrupt key.
OrderKeys == {plain("x"), plain("y"), ctrl("c")}

\* Every Client shows a.txt; the keys of the first one are watched.
InitOrder ==
    InitState([c \in Clients |-> "a.txt"], MaxKeys, 0, {}, 1)

\* Urgent calls and Normal drains of one Client interleaved: keys arrive at
\* any time, an Urgent call may run between two turns of a drain.
NextOrder ==
    \/ \E key \in OrderKeys : KeyArrives(1, key)
    \/ \E mode \in {"Normal", "Urgent"} : handle_available_input(1, mode)
    \/ Continue(1)

SpecOrder == InitOrder /\ [][NextOrder]_vars

(* ------------------------------- claims -------------------------------- *)

IsPrefix(s, t) == Len(s) <= Len(t) /\ SubSeq(t, 1, Len(s)) = s

Last(s) == s[Len(s)]

\* a call of handle_available_input has run and is over
CallEnded == call.c # 0 /\ ~call.active

\* Scenario E: the call started with two keys in the queue, both of them
\* keys the loop forwards, and the input source held no key at the start and
\* received none since.
ScenarioE ==
    /\ CallEnded
    /\ Len(call.queue0) = 2
    /\ \A i \in 1..2 : route(call.queue0[i]) = "handle_key"
    /\ call.source0 = <<>>
    /\ keysLeft = call.keysLeft0

\* The keys of the queue at the call are taken first and in their order.
QueueFirst ==
    call.c # 0 =>
        \A i \in 1..Len(call.taken) :
            i <= Len(call.queue0) =>
                /\ call.taken[i].from = "queue"
                /\ call.taken[i].key = call.queue0[i]

\* C1 as stated: the keys of the queue are taken in injection order before
\* any fetched key, and in Scenario E the key handler receives exactly K1
\* then K2.
C1_Original ==
    /\ QueueFirst
    /\ ScenarioE => call.engine = call.queue0

\* C1, amended: the keys of the queue are taken in injection order before
\* any fetched key; in Scenario E the key handler receives K1 then K2 and
\* nothing more when the call ends without an error, and when handling a key
\* raises an error or a removal the call stops there: the handler has
\* received a non-empty prefix of the queue and the rest is still queued in
\* its order.
C1_Fifo ==
    /\ QueueFirst
    /\ ScenarioE =>
          /\ call.engine # <<>>
          /\ IsPrefix(call.engine, call.queue0)
          /\ call.engine \o m_pending_keys[call.c] = call.queue0
          /\ call.result = "done" => call.engine = call.queue0

C1_Witness ==
    /\ ScenarioE
    /\ call.result = "done"
    /\ call.queue0[1] # call.queue0[2]
    /\ call.engine = call.queue0

\* C2: an Urgent call that fetches the interrupt key broadcasts the signal,
\* leaves the queue as it was and runs neither the key handler nor the
\* dialog's one-shot handler, whatever the queue and the dialog state.
C2_UrgentInterrupt ==
    [][(fx'.op = "urgent" /\ fx'.key = ctrl("c")) =>
          /\ fx'.signals = 1
          /\ m_pending_keys' = m_pending_keys
          /\ fx'.handled = <<>> /\ fx'.intercepted = <<>> /\ fx'.hooks = <<>>
          /\ call.active => call' = call
          /\ UNCHANGED <<dialogVars, m_pending_status_line, fs_timestamp>>]_vars

C2_Witness ==
    /\ fx.op = "urgent"
    /\ fx.key = ctrl("c")
    /\ fx.signals = 1
    /\ m_pending_keys[fx.c] # <<>>
    /\ m_buffer_reload_dialog_opened[fx.c]

\* the names of the backend calls Client c issued in the last operation
CallNames(c) == [i \in 1..Len(ui[c]) |-> ui[c][i].name]

\* C3: every redraw_ifn issues refresh exactly once, as its last backend
\* call; when the Window is not dirty, the pending status equals the drawn
\* one and the new mode line equals the drawn one, it issues neither draw
\* nor draw_status.
C3_RedrawSuppression ==
    [][\A c \in Clients :
          (fx'.op = "redraw_ifn" /\ fx'.c = c) =>
             LET calls == ui'[c]
                 clean ==
                    /\ ~window_dirty[ctx_window[c]]
                    /\ atoms(m_pending_status_line[c]) = atoms(m_status_line[c])
                    /\ atoms(generate_mode_line(c)) = atoms(m_mode_line[c])
             IN  /\ calls # <<>>
                 /\ Last(calls).name = "refresh"
                 /\ \A i \in 1..(Len(calls) - 1) : calls[i].name # "refresh"
                 /\ clean => \A i \in 1..Len(calls) :
                                calls[i].name \notin {"draw", "draw_status"}
                 /\ clean => UNCHANGED <<m_status_line, m_mode_line>>]_vars

C3_Witness ==
    /\ fx.op = "redraw_ifn"
    /\ fx.threw = "clean"
    /\ ui[fx.c] = <<UiCall("refresh", <<>>)>>
    /\ m_status_line[fx.c] # EmptyLine
    /\ session[fx.c] # {}

\* the step is Client c's one-shot handler taking a key of the given kind
DialogKeyStep(c, kind) ==
    /\ fx'.op = "dispatch"
    /\ fx'.c = c
    /\ fx'.intercepted # <<>>
    /\ reload_key_kind(fx'.key) = kind

\* the step is check_if_buffer_needs_reloading on Client c
CheckStep(c) == fx'.op = "check" /\ fx'.c = c

\* C4: check_if_buffer_needs_reloading on a Client whose dialog is open
\* changes nothing: flag, handler, overlay, status and recorded timestamp
\* stay, no backend call is issued and the reload operation is not invoked.
C4_CheckIdempotent ==
    [][\A c \in Clients :
          (CheckStep(c) /\ m_buffer_reload_dialog_opened[c]) =>
              /\ UNCHANGED <<dialogVars, fs_timestamp, m_pending_status_line>>
              /\ ui' = NoUi
              /\ fx'.reloads = 0]_vars

C4_Witness ==
    /\ fx.op = "check"
    /\ m_buffer_reload_dialog_opened[fx.c]
    /\ autoreload = "Always"
    /\ get_fs_timestamp(buffer_of(fx.c)) # InvalidTime
    /\ get_fs_timestamp(buffer_of(fx.c)) # fs_timestamp[buffer_of(fx.c)]

\* the registered Clients attached to Buffer b
ClientsOn(b) == {d \in Clients : registered[d] /\ buffer_of(d) = b}

\* C5: when every Client attached to a Buffer has the dialog open and the
\* one-shot handler of one of them takes a confirm or a decline key, the
\* dialog is closed on all of them (flag false, info_hide issued, normal key
\* routing restored) and the Clients attached to another Buffer keep their
\* dialog state.
C5_CrossClient ==
    [][\A c \in Clients :
          (DialogKeyStep(c, "confirm") \/ DialogKeyStep(c, "decline")) =>
              LET group == ClientsOn(buffer_of(c))
              IN  (\A d \in group : m_buffer_reload_dialog_opened[d]) =>
                     /\ \A d \in group :
                           /\ ~m_buffer_reload_dialog_opened'[d]
                           /\ ~next_key'[d]
                           /\ ui'[d] = close_calls
                     /\ \A d \in Clients \ group :
                           /\ m_buffer_reload_dialog_opened'[d] =
                                 m_buffer_reload_dialog_opened[d]
                           /\ next_key'[d] = next_key[d]
                           /\ ui'[d] = <<>>]_vars

\* C6: a decline records the timestamp the filesystem reports at that moment
\* and does not reload; the check that follows the call in which the dialog
\* was declined opens no dialog on any Client of that Buffer.
C6_DeclineSuppresses ==
    [][/\ \A c \in Clients :
             DialogKeyStep(c, "decline") =>
                 /\ fs_timestamp'[buffer_of(c)] = fs_now[buffer_of(c)]
                 /\ fx'.reloads = 0
       /\ \A d \in Clients :
             (/\ CheckStep(d)
              /\ CallEnded
              /\ call.intercepted # <<>>
              /\ reload_key_kind(Last(call.intercepted)) = "decline"
              /\ buffer_of(d) = buffer_of(call.c)) =>
                 /\ ~m_buffer_reload_dialog_opened'[d]
                 /\ ~next_key'[d]
                 /\ fx'.reloads = 0
                 /\ ui' = NoUi]_vars

C6_Witness ==
    /\ fx.op = "check"
    /\ m_pending_status_line[fx.c] = kept_status(buffer_of(fx.c))
    /\ ~m_buffer_reload_dialog_opened[fx.c]
    /\ autoreload = "Ask"
    /\ fs_timestamp[buffer_of(fx.c)] = fs_now[buffer_of(fx.c)]
    /\ fs_timestamp[buffer_of(fx.c)] = MaxTime

\* the text names the Buffer
Names(text, b) == \E i \in 1..Len(text) : text[i] = display_name(b)

\* C7: a check on a Client whose dialog is closed opens the dialog exactly
\* when the Buffer is file-backed, the policy is Ask and the filesystem
\* timestamp is available and differs from the recorded one; with policy
\* Always and such a timestamp it invokes the reload operation once and the
\* dialog stays closed; in every other case nothing changes.
C7_OpeningCondition ==
    [][\A c \in Clients :
          (CheckStep(c) /\ ~m_buffer_reload_dialog_opened[c]) =>
              LET b == buffer_of(c)
                  changed == /\ is_file(b)
                             /\ fs_now[b] # InvalidTime
                             /\ fs_now[b] # fs_timestamp[b]
              IN  /\ m_buffer_reload_dialog_opened'[c] <=>
                        (changed /\ autoreload = "Ask")
                  /\ (changed /\ autoreload = "Ask") =>
                        /\ next_key'[c]
                        /\ Names(m_info'[c].title, b)
                        /\ m_info'[c].style = "Prompt"
                        /\ ui'[c] = <<info_show_call(m_info'[c])>>
                        /\ fx'.reloads = 0
                        /\ fs_timestamp' = fs_timestamp
                  /\ (changed /\ autoreload = "Always") =>
                        /\ fx'.reloads = 1
                        /\ UNCHANGED dialogVars
                        /\ ui' = NoUi
                  /\ ~(changed /\ autoreload \in {"Ask", "Always"}) =>
                        /\ UNCHANGED <<dialogVars, fs_timestamp,
                                       m_pending_status_line>>
                        /\ ui' = NoUi
                        /\ fx'.reloads = 0]_vars

C7_Witness ==
    /\ fx.op = "check"
    /\ m_buffer_reload_dialog_opened[fx.c]
    /\ next_key[fx.c]
    /\ ui[fx.c] = <<info_show_call(reload_prompt(buffer_of(fx.c)))>>

\* the keys the dialog accepts as a choice: y, enter, n, escape
ChoiceKeys == {plain("y"), ctrl("m"), plain("n"), Key_Escape}

\* C8: a key that neither confirms nor declines, taken by the one-shot
\* handler, sets the error status naming the key and installs the handler
\* again; the flags of all Clients, the recorded timestamps and the overlay
\* stay, the reload operation is not invoked and no backend call is issued.
C8_InvalidKey ==
    [][\A c \in Clients :
          (/\ fx'.op = "dispatch"
           /\ fx'.c = c
           /\ fx'.intercepted # <<>>
           /\ fx'.key \notin ChoiceKeys) =>
              /\ m_pending_status_line'[c] =
                    <<Atom(<<"'", key_to_str(fx'.key), "' is not a valid choice">>,
                           "Error")>>
              /\ next_key'[c]
              /\ m_buffer_reload_dialog_opened[c]
              /\ UNCHANGED <<m_buffer_reload_dialog_opened, next_key, m_info,
                             fs_timestamp>>
              /\ \A d \in Clients \ {c} :
                    m_pending_status_line'[d] = m_pending_status_line[d]
              /\ fx'.reloads = 0
              /\ ui' = NoUi]_vars

C8_Witness ==
    /\ fx.op = "dispatch"
    /\ fx.intercepted = <<plain("x")>>
    /\ keysLeft = 0
    /\ m_buffer_reload_dialog_opened[fx.c]
    /\ next_key[fx.c]
    /\ \A d \in Clients :
          m_pending_status_line[d] = invalid_status(plain("x"))

\* C9: a Client whose reload-dialog flag is true has the dialog's one-shot
\* handler installed.
C9_FlagImpliesHandler ==
    \A c \in Clients :
        (registered[c] /\ m_buffer_reload_dialog_opened[c]) => next_key[c]

\* C10: every Client owns exactly one live Window, owned by no other Client
\* and not in the free list, and its context refers to that Window.
C10_OneWindow ==
    \A c \in Clients :
        registered[c] =>
            /\ m_window[c] # NoWindow
            /\ window_buffer[m_window[c]] # ""
            /\ ctx_window[c] = m_window[c]
            /\ \A i \in 1..Len(free_windows) : free_windows[i] # m_window[c]
            /\ \A d \in Clients \ {c} : registered[d] => m_window[d] # m_window[c]

\* the step is the one-shot handler of Client d taking a confirm or a
\* decline key
ResolvingStep(d) ==
    /\ fx'.op = "dispatch"
    /\ fx'.c = d
    /\ fx'.intercepted # <<>>
    /\ fx'.key \in ChoiceKeys

\* the reload dialog of Client c is closed in the step
DialogCloses(c) ==
    m_buffer_reload_dialog_opened[c] /\ ~m_buffer_reload_dialog_opened'[c]

\* C11 as stated: the flag of a Client returns to false only when the
\* one-shot handler of a Client attached to the same Buffer takes a confirm
\* or a decline key.
C11_Original ==
    [][\A c \in Clients :
          DialogCloses(c) =>
              \E d \in Clients :
                  ResolvingStep(d) /\ buffer_of(d) = buffer_of(c)]_vars

\* C11, amended: the flag of a Client returns to false only when the
\* one-shot handler of a Client attached to the same Buffer takes a confirm
\* or a decline key, or when change_buffer runs on that Client; a check and
\* any other key leave it true.
C11_OnlyResolution ==
    [][\A c \in Clients :
          DialogCloses(c) =>
              \/ \E d \in Clients :
                    ResolvingStep(d) /\ buffer_of(d) = buffer_of(c)
              \/ fx'.op = "change_buffer" /\ fx'.c = c]_vars

C11_Witness ==
    /\ fx.op = "dispatch"
    /\ fx.intercepted # <<>>
    /\ fx.key \in {plain("n"), Key_Escape}
    /\ \E d \in Clients \ {fx.c} :
          /\ ui[d] = close_calls
          /\ ~m_buffer_reload_dialog_opened[d]
          /\ buffer_of(d) = buffer_of(fx.c)

\* the step is one turn of a Normal or Pending drain of Client c that took
\* a key
DispatchStep(c) == fx'.op = "dispatch" /\ fx'.c = c

\* the step is a turn of a drain of Client c, with or without a key
DrainStep(c) == fx'.op \in {"dispatch", "dispatch_end"} /\ fx'.c = c

\* the session-removal signals, by their graceful flag
RemovalSignals == {"removed_graceful", "removed_abrupt"}

\* C12: a session-removal signal raised while a drain handles a key (by the
\* key handler, a focus hook or the RuntimeError hook) results in exactly
\* one remove_client for this Client with the signal's graceful flag, and
\* ends the call; a Client leaves the registry by no other step, and a
\* removed Client dispatches no key.
C12_SessionRemoval ==
    [][\A c \in Clients :
          /\ DispatchStep(c) =>
                /\ fx'.threw \in RemovalSignals =>
                      /\ fx'.removes =
                            <<[c |-> c,
                               graceful |-> fx'.threw = "removed_graceful"]>>
                      /\ call'.removes = fx'.removes
                      /\ ~registered'[c]
                      /\ ~call'.active
                /\ fx'.threw \notin RemovalSignals =>
                      /\ fx'.removes = <<>>
                      /\ registered'[c]
          /\ (registered[c] /\ ~registered'[c]) =>
                (DispatchStep(c) /\ fx'.threw \in RemovalSignals)
          /\ ~registered[c] => ~DrainStep(c)]_vars

C12_Witness ==
    /\ fx.op = "dispatch"
    /\ fx.threw = "removed_abrupt"
    /\ fx.hooks = <<"RuntimeError">>
    /\ fx.removes = <<[c |-> fx.c, graceful |-> FALSE]>>
    /\ ~registered[fx.c]
    /\ m_pending_keys[fx.c] # <<>>
    /\ call.mode = "Pending"

\* handling the key of the step raised a recoverable error in a drain of
\* Client c
ErrorStep(c) == DispatchStep(c) /\ fx'.raised = "runtime_error"

\* what the inner handler does with the error of the step: the status shows
\* its message with the Error face, the RuntimeError hook runs once with the
\* message, the call ends and no key is lost
Reported(c) ==
    /\ m_pending_status_line'[c] = <<Atom(<<fx'.what>>, "Error")>>
    /\ fx'.hooks = <<"RuntimeError">>
    /\ fx'.params = <<fx'.what>>
    /\ ~call'.active
    /\ Len(m_pending_keys'[c]) + Len(source'[c]) =
          Len(m_pending_keys[c]) + Len(source[c]) - 1

\* C13 as stated: a recoverable error raised while a drain handles a key is
\* reported (status with the Error face, RuntimeError hook once), and the
\* Client stays registered with no remove_client call.
C13_Original ==
    [][\A c \in Clients :
          ErrorStep(c) =>
              /\ Reported(c)
              /\ registered'[c]
              /\ fx'.removes = <<>>]_vars

\* C13, amended: a recoverable error raised while a drain handles a key is
\* reported (status with the Error face, RuntimeError hook once with the
\* message); the Client stays registered with no remove_client call unless
\* the RuntimeError hook raises a session removal, in which case the Client
\* is removed once with that signal's graceful flag.
C13_Containment ==
    [][\A c \in Clients :
          ErrorStep(c) =>
              /\ Reported(c)
              /\ fx'.threw \in {"runtime_error"} \cup RemovalSignals
              /\ fx'.threw = "runtime_error" =>
                    /\ registered'[c]
                    /\ fx'.removes = <<>>
                    /\ call'.result = "error"
              /\ fx'.threw \in RemovalSignals =>
                    /\ ~registered'[c]
                    /\ fx'.removes =
                          <<[c |-> c,
                             graceful |-> fx'.threw = "removed_graceful"]>>]_vars

\* a later call of the Client whose status still shows the error has handled
\* a key and ended normally
C13_Witness ==
    /\ call.c # 0
    /\ registered[call.c]
    /\ m_pending_status_line[call.c] = <<Atom(<<"engine error">>, "Error")>>
    /\ call.result = "done"
    /\ call.engine # <<>>
    /\ call.hooks = <<>>

\* C14: an Urgent call takes exactly the first key of the input source,
\* whatever the queue holds; a key that is not the interrupt key is appended
\* at the back of the queue, no signal is sent, and neither the key handler
\* nor a hook nor the dialog's one-shot handler runs.
C14_UrgentQueues ==
    [][\A c \in Clients :
          (fx'.op = "urgent" /\ fx'.c = c) =>
              /\ source[c] # <<>>
              /\ fx'.key = Head(source[c])
              /\ source'[c] = Tail(source[c])
              /\ fx'.key # ctrl("c") =>
                    /\ m_pending_keys'[c] = m_pending_keys[c] \o <<fx'.key>>
                    /\ fx'.signals = 0
                    /\ fx'.handled = <<>>
                    /\ fx'.intercepted = <<>>
                    /\ fx'.hooks = <<>>
                    /\ call.active => call' = call
                    /\ UNCHANGED <<dialogVars, m_pending_status_line,
                                   fs_timestamp, registered>>]_vars

C14_Witness ==
    /\ fx.op = "urgent"
    /\ fx.key = Key_FocusIn
    /\ Len(m_pending_keys[fx.c]) = 2
    /\ m_pending_keys[fx.c][1] = plain("x")
    /\ m_pending_keys[fx.c][2] = Key_FocusIn
    /\ m_buffer_reload_dialog_opened[fx.c]
    /\ next_key[fx.c]

\* C15: a Pending call neither asks the input source whether a key is
\* available nor takes a key from it: its turns leave the source as it is
\* and take keys of the queue only, and when it ends without an error the
\* queue is empty. In either mode a turn takes the front of a non-empty
\* queue; in Pending mode a turn with an empty queue takes no key even when
\* the source holds one.
C15_PendingNoPoll ==
    [][\A c \in Clients :
          DrainStep(c) =>
              /\ call'.mode = "Pending" =>
                    /\ ~fx'.polled
                    /\ source' = source
                    /\ \A i \in 1..Len(call'.taken) :
                          call'.taken[i].from = "queue"
                    /\ call'.result = "done" => m_pending_keys'[c] = <<>>
                    /\ m_pending_keys[c] = <<>> =>
                          /\ fx'.op = "dispatch_end"
                          /\ call'.result = "done"
              /\ m_pending_keys[c] # <<>> =>
                    /\ fx'.op = "dispatch"
                    /\ fx'.key = Head(m_pending_keys[c])
                    /\ m_pending_keys'[c] = Tail(m_pending_keys[c])
                    /\ source' = source]_vars

C15_Witness ==
    /\ call.mode = "Pending"
    /\ call.result = "done"
    /\ fx.op = "dispatch_end"
    /\ Len(call.taken) = 2
    /\ source[call.c] # <<>>
    /\ m_pending_keys[call.c] = <<>>

\* the key handler and the one-shot handler got nothing in the step, and
\* the dialog state is as before
NotForwarded ==
    /\ fx'.handled = <<>>
    /\ fx'.intercepted = <<>>
    /\ UNCHANGED <<dialogVars, fs_timestamp, m_pending_status_line>>

\* C16: every key a drain takes goes exactly one of five ways: the
\* interrupt key sends the signal, focus-gained runs the FocusIn hook and
\* focus-lost the FocusOut hook with the Client's name, a resize event marks
\* the Window for a forced redraw, any other key goes to the key handler;
\* interrupt, focus and resize events are not forwarded, so an open reload
\* dialog keeps its flag and its one-shot handler.
C16_KeyRouting ==
    [][\A c \in Clients :
          DispatchStep(c) =>
              LET k == fx'.key
              IN  /\ k = ctrl("c") =>
                        /\ fx'.signals = 1
                        /\ fx'.hooks = <<>>
                        /\ window_dirty' = window_dirty
                        /\ NotForwarded
                  /\ k \in {Key_FocusIn, Key_FocusOut} =>
                        /\ fx'.signals = 0
                        /\ fx'.hooks = <<k.key>>
                        /\ fx'.params = <<client_name(c)>>
                        /\ window_dirty' = window_dirty
                        /\ NotForwarded
                  /\ k.modifiers = "Resize" =>
                        /\ fx'.signals = 0
                        /\ fx'.hooks = <<>>
                        /\ window_dirty' =
                              [window_dirty EXCEPT ![m_window[c]] = TRUE]
                        /\ NotForwarded
                  /\ (/\ k # ctrl("c")
                      /\ k \notin {Key_FocusIn, Key_FocusOut}
                      /\ k.modifiers # "Resize") =>
                        /\ fx'.signals = 0
                        /\ fx'.handled \o fx'.intercepted = <<k>>
                        /\ fx'.hooks \in {<<>>, <<"RuntimeError">>}
                        /\ window_dirty' = window_dirty]_vars

C16_Witness ==
    /\ fx.op = "dispatch"
    /\ fx.key = Key_Resize
    /\ window_dirty[m_window[fx.c]]
    /\ m_buffer_reload_dialog_opened[fx.c]
    /\ next_key[fx.c]
    /\ Len(call.taken) = 3
    /\ call.signals = 1
    /\ call.hooks = <<"FocusOut">>

\* the draw_status calls among the backend calls
StatusDraws(calls) == {i \in 1..Len(calls) : calls[i].name = "draw_status"}

\* C17: redraw_ifn issues draw_status once when the Window is dirty, or the
\* pending status differs from the drawn one, or the new mode line differs
\* from the drawn one, and not at all otherwise; the call carries the
\* pending status and the new mode line, and after every redraw_ifn the
\* drawn status is the pending one and the drawn mode line is the one built
\* in the call. print_status draws nothing and replaces the pending status,
\* so what is drawn is what was printed last.
C17_StatusBaseline ==
    [][\A c \in Clients :
          /\ (fx'.op = "redraw_ifn" /\ fx'.c = c) =>
                LET mode_line == generate_mode_line(c)
                    due == \/ window_dirty[ctx_window[c]]
                           \/ m_status_line[c] # m_pending_status_line[c]
                           \/ mode_line # m_mode_line[c]
                    draws == StatusDraws(ui'[c])
                IN  /\ Cardinality(draws) = IF due THEN 1 ELSE 0
                    /\ \A i \in draws :
                          ui'[c][i].args =
                             <<m_pending_status_line[c], mode_line>>
                    /\ m_status_line'[c] = m_pending_status_line[c]
                    /\ m_pending_status_line'[c] = m_pending_status_line[c]
                    /\ m_mode_line'[c] = mode_line
          /\ (fx'.op = "print_status" /\ fx'.c = c) =>
                /\ ui' = NoUi
                /\ UNCHANGED <<m_status_line, m_mode_line>>
                /\ \E line \in StatusLines :
                      m_pending_status_line'[c] = line]_vars

\* a redraw of a clean Window whose mode line is as drawn draws the status
\* printed last
C17_Witness ==
    /\ fx.op = "redraw_ifn"
    /\ fx.threw = "clean"
    /\ CallNames(fx.c) = <<"draw_status", "refresh">>
    /\ ui[fx.c][1].args[1] = <<Atom(<<"saved">>, "Information")>>
    /\ ui[fx.c][1].args[2] = m_mode_line[fx.c]
    /\ m_status_line[fx.c] = <<Atom(<<"saved">>, "Information")>>
    /\ session[fx.c] = {"modified"}

\* the menu_show and info_show calls among the backend calls
Shows(calls) ==
    {i \in 1..Len(calls) : calls[i].name \in {"menu_show", "info_show"}}

\* C18: redraw_ifn issues menu_show or info_show only when the Window was
\* dirty and its position changed across the draw, and only for an overlay
\* of an inline style that the backend shows at that moment (shown and not
\* hidden since); the call carries the content the backend already shows.
C18_Reanchoring ==
    [][\A c \in Clients :
          (fx'.op = "redraw_ifn" /\ fx'.c = c) =>
              \A i \in Shows(ui'[c]) :
                  LET show == ui'[c][i]
                      w == ctx_window[c]
                  IN  /\ window_dirty[w]
                      /\ window_pos'[w] # window_pos[w]
                      /\ show.name = "info_show" =>
                            /\ show.args[3] \in
                                  {"Inline", "InlineAbove", "InlineBelow"}
                            /\ backend[c].info = show.args
                      /\ show.name = "menu_show" =>
                            /\ show.args[2] = "Inline"
                            /\ backend[c].menu = show.args]_vars

\* the backend calls of the given name among the calls
Issued(calls, name) == \E i \in 1..Len(calls) : calls[i].name = name

\* C19: menu_show and info_show replace the tracked Menu and Info wholesale
\* (the selected index is -1 again); whenever a Client issues menu_hide or
\* info_hide to its backend, by menu_hide, info_hide or the closing of the
\* reload dialog, the tracked state is empty afterwards; so the tracked
\* state is non-empty only while the backend shows the overlay.
C19_OverlayLifecycle ==
    [][\A c \in Clients :
          /\ (fx'.op = "menu_show" /\ fx'.c = c) =>
                \E m \in Menus :
                    /\ m_menu'[c] = [items |-> m.items, style |-> m.style,
                                      selected |-> -1]
                    /\ ui'[c] = <<UiCall("menu_show", <<m.items, m.style>>)>>
          /\ (fx'.op = "info_show" /\ fx'.c = c) =>
                /\ m_info'[c] \in Infos
                /\ ui'[c] = <<UiCall("info_show",
                                     <<m_info'[c].title, m_info'[c].content,
                                       m_info'[c].style>>)>>
          /\ Issued(ui'[c], "menu_hide") => m_menu'[c] = NoMenu
          /\ Issued(ui'[c], "info_hide") => m_info'[c] = NoInfo
          /\ m_menu'[c].items # <<>> => backend'[c].menu # <<>>
          /\ m_info'[c] # NoInfo => backend'[c].info # <<>>]_vars

\* the keys of a sequence that are not the interrupt key
NonInterrupt(keys) == SelectSeq(keys, LAMBDA k : k # ctrl("c"))

\* C20: with Urgent calls and Normal drains of one Client interleaved in any
\* way, the keys other than the interrupt key that the drains took are, in
\* order and each once, the first of those the source yielded; the ones not
\* yet taken wait in the queue and then in the source, in the order the
\* source yielded them.
C20_SourceOrder ==
    /\ IsPrefix(NonInterrupt(history.routed), NonInterrupt(history.yielded))
    /\ NonInterrupt(history.routed)
          \o NonInterrupt(m_pending_keys[history.c])
          \o NonInterrupt(source[history.c])
       = NonInterrupt(history.yielded)

\* a drain took a key from the source and then a key an Urgent call had
\* queued meanwhile, and a later key waits in the source
C20_Witness ==
    /\ call.active
    /\ Len(call.taken) = 2
    /\ call.taken[1].from = "source"
    /\ call.taken[2].from = "queue"
    /\ history.routed = <<plain("x"), plain("y")>>
    /\ history.yielded = <<plain("x"), plain("y"), plain("x")>>
    /\ source[history.c] = <<plain("x")>>

\* C21: close_buffer_reload_dialog is invoked only on a Client whose flag
\* is true, so its assertion holds, and it leaves the flag false; the flag
\* gets false by no other way and gets true only when a check opens the
\* dialog, so the dialog is closed at most once per opening.
C21_CloseAssertion ==
    [][\A d \in Clients :
          /\ d \in fx'.closes =>
                /\ m_buffer_reload_dialog_opened[d]
                /\ ~m_buffer_reload_dialog_opened'[d]
                /\ Issued(ui'[d], "info_hide")
          /\ DialogCloses(d) => d \in fx'.closes
          /\ (~m_buffer_reload_dialog_opened[d]
              /\ m_buffer_reload_dialog_opened'[d]) =>
                (CheckStep(d) /\ fx'.closes = {})]_vars

\* a decline key closes the dialog of the one Client whose dialog is open,
\* while another Client on the same Buffer had its dialog closed before by
\* change_buffer
C21_Witness ==
    /\ fx.op = "dispatch"
    /\ fx.intercepted # <<>>
    /\ Cardinality(fx.closes) = 1
    /\ \E d \in Clients \ fx.closes :
          /\ registered[d]
          /\ buffer_of(d) = buffer_of(fx.c)
          /\ m_info[d] = reload_prompt(buffer_of(d))
          /\ ~m_buffer_reload_dialog_opened[d]

====
